---- MODULE Spec2Model ----
(***************************************************************************)
(* ttj: the TypeScript -> JavaScript batch converter of src/index.js.      *)
(*                                                                         *)
(* A path is a JavaScript string, modelled as a sequence of one-character  *)
(* strings.  The filesystem is a partial map from paths to nodes.  The     *)
(* async functions main, convertDirectory/processDirectory and processFile *)
(* are cut at their await points (readdir, readFile, writeFile, unlink),   *)
(* the only places where an I/O failure or a kill of the process can fall. *)
(***************************************************************************)
EXTENDS Integers, Sequences, FiniteSets, TLC

\* ------------------------------------------------------------------ bounds
\* Largest number of entries the walked root directory starts with.
MaxEntries == 3
\* Largest number of injected I/O failures (EACCES, ENOSPC, EIO...) in a run.
MaxFaults == 1

\* ------------------------------------------------------- strings and paths
Sep == "/"
Dot == "."

\* String.prototype.toLowerCase on the letters the model's names use.
LowerChar(c) ==
    CASE c = "T" -> "t"
      [] c = "S" -> "s"
      [] c = "X" -> "x"
      [] OTHER -> c

ToLowerCase(s) == [i \in 1..Len(s) |-> LowerChar(s[i])]

\* Index of the last occurrence of character c in s, 0 when there is none.
LastIndexOf(s, c) ==
    LET hits == {i \in 1..Len(s) : s[i] = c}
    IN  IF hits = {} THEN 0 ELSE CHOOSE i \in hits : \A j \in hits : j <= i

\* path.basename: what follows the last separator.
Basename(p) == SubSeq(p, LastIndexOf(p, Sep) + 1, Len(p))

\* path.dirname: what precedes the last separator.
Dirname(p) == SubSeq(p, 1, LastIndexOf(p, Sep) - 1)

\* path.extname: from the last '.' of the basename to the end; empty when the
\* basename has no '.', when its only '.' is its first character, or for "..".
ExtName(p) ==
    LET b == Basename(p)
        k == LastIndexOf(b, Dot)
    IN  IF k <= 1 THEN <<>>
        ELSE IF k = 2 /\ Len(b) = 2 /\ b[1] = Dot THEN <<>>
        ELSE SubSeq(b, k, Len(b))

\* path.join(currentDir, entry.name)
Join(d, n) == d \o <<Sep>> \o n

\* String.prototype.startsWith('.')
StartsWithDot(n) == Len(n) > 0 /\ n[1] = Dot

\* ------------------------------------------------- configuration constants
EXT_TS  == <<".", "t", "s">>
EXT_TSX == <<".", "t", "s", "x">>
EXT_JS  == <<".", "j", "s">>
EXT_JSX == <<".", "j", "s", "x">>

SUPPORTED_EXTENSIONS == {EXT_TS, EXT_TSX}

OUTPUT_EXTENSIONS_swapped(ext) == IF ext = EXT_TS THEN EXT_JSX ELSE EXT_JS

OUTPUT_EXTENSIONS(ext) == IF ext = EXT_TS THEN EXT_JS ELSE EXT_JSX

N_node_modules == <<"n","o","d","e","_","m","o","d","u","l","e","s">>
N_git    == <<".", "g", "i", "t">>
N_vscode == <<".", "v", "s", "c", "o", "d", "e">>
N_idea   == <<".", "i", "d", "e", "a">>

IGNORED_DIRS == {N_node_modules, N_git, N_vscode, N_idea}

\* ------------------------------------------------------ filesystem nodes
Dir       == [kind |-> "dir"]
Other     == [kind |-> "other"]
File(d)   == [kind |-> "file", data |-> d]

Exists(f, p) == p \in DOMAIN f
IsFile(f, p) == Exists(f, p) /\ f[p].kind = "file"
IsDir(f, p)  == Exists(f, p) /\ f[p].kind = "dir"

\* f with path p bound to node n (created or replaced).
Put(f, p, n) == [q \in DOMAIN f \cup {p} |-> IF q = p THEN n ELSE f[q]]

\* f without path p.
Remove(f, p) == [q \in DOMAIN f \ {p} |-> f[q]]

\* fs.readdir(dir, {withFileTypes: true}): the Dirents of dir's children.
Dirents(f, d) ==
    {[name |-> Basename(p), kind |-> f[p].kind] :
        p \in {q \in DOMAIN f : Len(q) > Len(d) + 1 /\ Dirname(q) = d}}

\* ------------------------------------------------------ transform engine
\* convertTypeScript: the external parse / type-erase / print pipeline, by
\* its contract: null on a parse or transform error, otherwise the printed
\* code (the empty string for an empty program).
NoOutput == "<null>"

convertTypeScript(sourceCode) ==
    CASE sourceCode = "T1" -> "J1"
      [] sourceCode = "T2" -> "J2"
      [] sourceCode = ""   -> ""
      [] OTHER -> NoOutput

\* JavaScript truthiness of convertTypeScript's result (line 74).
Falsy(code) == code = NoOutput \/ code = ""

\* ------------------------------------------------------------- the trees
Root == <<"r">>

N_a_ts   == <<"a", ".", "t", "s">>
N_a_js   == <<"a", ".", "j", "s">>
N_b_tsx  == <<"b", ".", "t", "s", "x">>
N_c_json == <<"c", ".", "j", "s", "o", "n">>
N_d_TS   == <<"d", ".", "T", "S">>
N_e_ts   == <<"e", ".", "t", "s">>
N_sub    == <<"s", "u", "b">>
N_hidden == <<".", "x">>
N_lnk    == <<"l", "n", "k">>

\* The entries a root directory may start with: each a top-level entry of Root
\* with the subtree below it.
Fragment(id) ==
    CASE id = "a.ts"     -> Join(Root, N_a_ts)   :> File("T1")
      [] id = "a.ts!"    -> Join(Root, N_a_ts)   :> File("BAD")
      [] id = "a.ts0"    -> Join(Root, N_a_ts)   :> File("")
      [] id = "a.js"     -> Join(Root, N_a_js)   :> File("OLD")
      [] id = "b.tsx"    -> Join(Root, N_b_tsx)  :> File("T2")
      [] id = "c.json"   -> Join(Root, N_c_json) :> File("DATA")
      [] id = "d.TS"     -> Join(Root, N_d_TS)   :> File("T1")
      [] id = "sub"      -> (Join(Root, N_sub) :> Dir)
                            @@ (Join(Join(Root, N_sub), N_e_ts) :> File("T2"))
                            @@ (Join(Join(Root, N_sub), N_lnk) :> Other)
                            @@ (Join(Join(Root, N_sub), N_hidden) :> Dir)
                            @@ (Join(Join(Join(Root, N_sub), N_hidden), N_a_ts) :> File("T1"))
      [] id = "node_modules" ->
                            (Join(Root, N_node_modules) :> Dir)
                            @@ (Join(Join(Root, N_node_modules), N_a_ts) :> File("T1"))

EntryIds == {"a.ts", "a.ts!", "a.ts0", "a.js", "b.tsx", "c.json", "d.TS", "sub",
             "node_modules"}

RECURSIVE MergeAll(_)
MergeAll(S) ==
    IF S = {} THEN Root :> Dir
    ELSE LET id == CHOOSE x \in S : TRUE
         IN  Fragment(id) @@ MergeAll(S \ {id})

\* The trees a run may start on: at most MaxEntries entries, one a.ts at most.
Worlds ==
    {MergeAll(S) : S \in {T \in SUBSET EntryIds :
        /\ Cardinality(T) <= MaxEntries
        /\ Cardinality(T \cap {"a.ts", "a.ts!", "a.ts0"}) <= 1}}

\* Command-line option values (program.opts()); None: the option is absent.
None == <<>>
FileTargets(f) == {Join(Root, N_a_ts)} \cup {p \in DOMAIN f : Dirname(p) = Root}
DirTargets == {Root, Join(Root, N_sub)}

\* ------------------------------------------------------------------ state
VARIABLES
    fs,            \* the filesystem: path -> node
    opts,          \* program.opts(): [file, dir, dryRun]
    pc,            \* main: "main", "file", "walk", "done", "killed"
    exitCode,      \* the process's exit status, -1 while it runs
    stack,         \* processDirectory activations: [dir, phase, todo]
    pf,            \* the processFile activation
    successCount,  \* convertDirectory's counters
    failureCount,
    stats,         \* what convertDirectory returned
    faults,        \* I/O failures injected so far
    fs0,           \* history: the filesystem at start
    pfSnap,        \* history: the filesystem when processFile was called
    calls,         \* history: functions main invoked
    io,            \* history: filesystem operations issued, [op, path]
    visited,       \* history: entries the walk's loop examined
    recursed,      \* history: directories processDirectory was called on
    failedDirs,    \* history: directories whose enumeration failed
    owed,          \* history: entries still to come when an enumeration failed
    pfCalls        \* history: paths processFile was called on during the walk

vars == <<fs, opts, pc, exitCode, stack, pf, successCount, failureCount, stats,
          faults, fs0, pfSnap, calls, io, visited, recursed, failedDirs, owed,
          pfCalls>>

walkVars == <<stack, successCount, failureCount, stats, visited, recursed,
              failedDirs, owed, pfCalls>>

NoFs == <<>>
NoStats == [success |-> -1, failure |-> -1]

PfIdle == [pc |-> "idle", filePath |-> <<>>, ext |-> <<>>, sourceCode |-> NoOutput,
           convertedCode |-> NoOutput, newPath |-> <<>>, result |-> FALSE,
           failedAt |-> "none"]

Init ==
    /\ fs \in Worlds
    /\ fs0 = fs
    /\ \E r \in BOOLEAN :
          \/ \E f \in FileTargets(fs) : opts = [file |-> f, dir |-> Root, dryRun |-> r]
          \/ \E d \in DirTargets : opts = [file |-> None, dir |-> d, dryRun |-> r]
    /\ pc = "main"
    /\ exitCode = -1
    /\ stack = <<>>
    /\ pf = PfIdle
    /\ successCount = 0
    /\ failureCount = 0
    /\ stats = NoStats
    /\ faults = 0
    /\ pfSnap = NoFs
    /\ calls = {}
    /\ io = {}
    /\ visited = {}
    /\ recursed = {}
    /\ failedDirs = {}
    /\ owed = {}
    /\ pfCalls = {}

\* ------------------------------------------------------------------- main
Running == pc \in {"main", "file", "walk"}

Fault == faults < MaxFaults /\ faults' = faults + 1
NoFault == faults' = faults

CallProcessFile(filePath) ==
    /\ pf' = [PfIdle EXCEPT !.pc = "begin", !.filePath = filePath]
    /\ pfSnap' = fs

\* main with dryRun set: only console.log lines (145-147, 151-152, 157-158).
MainDryRun ==
    /\ pc = "main"
    /\ opts.dryRun
    /\ pc' = "done"
    /\ exitCode' = 0
    /\ UNCHANGED <<fs, opts, pf, faults, fs0, pfSnap, calls, io, walkVars>>

MainFile_ignoringDryRun ==
    /\ pc = "main"
    /\ opts.file # None
    /\ pc' = "file"
    /\ calls' = calls \cup {"processFile"}
    /\ CallProcessFile(opts.file)
    /\ UNCHANGED <<fs, opts, exitCode, faults, fs0, io, walkVars>>

\* main, single-file mode: await processFile(file).
MainFile ==
    /\ pc = "main"
    /\ opts.file # None
    /\ ~opts.dryRun
    /\ pc' = "file"
    /\ calls' = calls \cup {"processFile"}
    /\ CallProcessFile(opts.file)
    /\ UNCHANGED <<fs, opts, exitCode, faults, fs0, io, walkVars>>

MainFileReturn_exitOnFailure ==
    /\ pc = "file"
    /\ pf.pc = "ret"
    /\ pf' = [pf EXCEPT !.pc = "idle"]
    /\ pc' = "done"
    /\ exitCode' = IF pf.result THEN 0 ELSE 1
    /\ UNCHANGED <<fs, opts, faults, fs0, pfSnap, calls, io, walkVars>>

\* main, single-file mode: processFile resolved; its result is dropped, main
\* resolves and the process ends with status 0.
MainFileReturn ==
    /\ pc = "file"
    /\ pf.pc = "ret"
    /\ pf' = [pf EXCEPT !.pc = "idle"]
    /\ pc' = "done"
    /\ exitCode' = 0
    /\ UNCHANGED <<fs, opts, faults, fs0, pfSnap, calls, io, walkVars>>

\* main, directory mode: convertDirectory(dir) starts processDirectory(dirPath).
MainDir ==
    /\ pc = "main"
    /\ opts.file = None
    /\ ~opts.dryRun
    /\ pc' = "walk"
    /\ calls' = calls \cup {"convertDirectory"}
    /\ successCount' = 0
    /\ failureCount' = 0
    /\ stack' = <<[dir |-> opts.dir, phase |-> "readdir", todo |-> {}]>>
    /\ recursed' = {opts.dir}
    /\ UNCHANGED <<fs, opts, exitCode, pf, stats, faults, fs0, pfSnap, io, visited,
                   failedDirs, owed, pfCalls>>

\* convertDirectory returns its statistics; main prints them and resolves.
ConvertDirectoryReturn ==
    /\ pc = "walk"
    /\ stack = <<>>
    /\ stats' = [success |-> successCount, failure |-> failureCount]
    /\ pc' = "done"
    /\ exitCode' = 0
    /\ UNCHANGED <<fs, opts, stack, pf, successCount, failureCount, faults, fs0,
                   pfSnap, calls, io, visited, recursed, failedDirs, owed, pfCalls>>

\* ------------------------------------------------------------ processFile
PfExt == ToLowerCase(ExtName(pf.filePath))

NewPath_keepingDot(filePath, ext) ==
    SubSeq(filePath, 1, Len(filePath) - Len(ext) + 1) \o OUTPUT_EXTENSIONS(ext)

\* filePath.slice(0, -ext.length) + OUTPUT_EXTENSIONS[ext]
NewPath(filePath, ext) ==
    SubSeq(filePath, 1, Len(filePath) - Len(ext)) \o OUTPUT_EXTENSIONS(ext)

PfReturn(result, at) ==
    pf' = [pf EXCEPT !.pc = "ret", !.result = result, !.failedAt = at, !.ext = PfExt]

Issue(op, path) == io' = io \cup {[op |-> op, path |-> path]}

\* Unsupported extension: warn and return false before any I/O.
PF_Unsupported ==
    /\ Running
    /\ pf.pc = "begin"
    /\ PfExt \notin SUPPORTED_EXTENSIONS
    /\ PfReturn(FALSE, "ext")
    /\ UNCHANGED <<fs, opts, pc, exitCode, faults, fs0, pfSnap, calls, io, walkVars>>

\* readFile rejects (no such file, a directory, or an injected I/O failure);
\* the catch logs and returns false.
PF_ReadFail ==
    /\ Running
    /\ pf.pc = "begin"
    /\ PfExt \in SUPPORTED_EXTENSIONS
    /\ \/ ~IsFile(fs, pf.filePath) /\ NoFault
       \/ Fault
    /\ Issue("readFile", pf.filePath)
    /\ PfReturn(FALSE, "read")
    /\ UNCHANGED <<fs, opts, pc, exitCode, fs0, pfSnap, calls, walkVars>>

\* readFile resolves, convertTypeScript gives null or '': throw, catch, false.
PF_ConvertFail ==
    /\ Running
    /\ pf.pc = "begin"
    /\ PfExt \in SUPPORTED_EXTENSIONS
    /\ IsFile(fs, pf.filePath)
    /\ Falsy(convertTypeScript(fs[pf.filePath].data))
    /\ Issue("readFile", pf.filePath)
    /\ pf' = [pf EXCEPT !.pc = "ret", !.result = FALSE, !.failedAt = "convert",
                        !.ext = PfExt, !.sourceCode = fs[pf.filePath].data,
                        !.convertedCode = convertTypeScript(fs[pf.filePath].data)]
    /\ UNCHANGED <<fs, opts, pc, exitCode, faults, fs0, pfSnap, calls, walkVars>>

\* readFile resolves, the code converts, newPath is computed, writeFile is issued.
PF_Converted ==
    /\ Running
    /\ pf.pc = "begin"
    /\ PfExt \in SUPPORTED_EXTENSIONS
    /\ IsFile(fs, pf.filePath)
    /\ ~Falsy(convertTypeScript(fs[pf.filePath].data))
    /\ Issue("readFile", pf.filePath)
    /\ pf' = [pf EXCEPT !.pc = "write", !.ext = PfExt,
                        !.sourceCode = fs[pf.filePath].data,
                        !.convertedCode = convertTypeScript(fs[pf.filePath].data),
                        !.newPath = NewPath(pf.filePath, PfExt)]
    /\ UNCHANGED <<fs, opts, pc, exitCode, faults, fs0, pfSnap, calls, walkVars>>

\* writeFile resolves: newPath holds the converted code; unlink is issued next.
PF_WriteOK ==
    /\ Running
    /\ pf.pc = "write"
    /\ ~IsDir(fs, pf.newPath)
    /\ fs' = Put(fs, pf.newPath, File(pf.convertedCode))
    /\ Issue("writeFile", pf.newPath)
    /\ pf' = [pf EXCEPT !.pc = "unlink"]
    /\ UNCHANGED <<opts, pc, exitCode, faults, fs0, pfSnap, calls, walkVars>>

PF_WriteFail_swallowed ==
    /\ Running
    /\ pf.pc = "write"
    /\ \/ IsDir(fs, pf.newPath) /\ NoFault
       \/ Fault
    /\ Issue("writeFile", pf.newPath)
    /\ pf' = [pf EXCEPT !.pc = "unlink"]
    /\ UNCHANGED <<fs, opts, pc, exitCode, fs0, pfSnap, calls, walkVars>>

\* writeFile rejects when it opens newPath (EACCES, EISDIR, EROFS...): nothing
\* is written; the catch logs and returns false.
PF_WriteFail ==
    /\ Running
    /\ pf.pc = "write"
    /\ \/ IsDir(fs, pf.newPath) /\ NoFault
       \/ Fault
    /\ Issue("writeFile", pf.newPath)
    /\ PfReturn(FALSE, "write")
    /\ UNCHANGED <<fs, opts, pc, exitCode, fs0, pfSnap, calls, walkVars>>

\* What newPath holds when a write stops after the open: writeFile opens with
\* flag 'w' (create or truncate), so the file exists, cut short.
Truncated == File("")

\* writeFile rejects after it opened newPath (ENOSPC, EIO, EDQUOT): newPath is
\* left created or truncated; the catch logs and returns false, no clean-up.
PF_WriteFailPartial ==
    /\ Running
    /\ pf.pc = "write"
    /\ ~IsDir(fs, pf.newPath)
    /\ Fault
    /\ fs' = Put(fs, pf.newPath, Truncated)
    /\ Issue("writeFile", pf.newPath)
    /\ PfReturn(FALSE, "write")
    /\ UNCHANGED <<opts, pc, exitCode, fs0, pfSnap, calls, walkVars>>

\* unlink resolves: the original is gone; log and return true.
PF_UnlinkOK ==
    /\ Running
    /\ pf.pc = "unlink"
    /\ fs' = Remove(fs, pf.filePath)
    /\ Issue("unlink", pf.filePath)
    /\ PfReturn(TRUE, "none")
    /\ UNCHANGED <<opts, pc, exitCode, faults, fs0, pfSnap, calls, walkVars>>

\* unlink rejects: both files stay; the catch logs and returns false.
PF_UnlinkFail ==
    /\ Running
    /\ pf.pc = "unlink"
    /\ Fault
    /\ Issue("unlink", pf.filePath)
    /\ PfReturn(FALSE, "unlink")
    /\ UNCHANGED <<fs, opts, pc, exitCode, fs0, pfSnap, calls, walkVars>>

\* ------------------------------------------- convertDirectory.processDirectory
\* The enumeration order of readdir is the filesystem's and is not specified:
\* the loop takes the entries of the Dirent array in any order, so todo is the
\* set of entries of that array the loop has still to reach.
Top == stack[Len(stack)]
Pop == SubSeq(stack, 1, Len(stack) - 1)
SetTop(fr) == [stack EXCEPT ![Len(stack)] = fr]

InLoop == pc = "walk" /\ stack # <<>> /\ Top.phase = "loop" /\ pf.pc = "idle"

\* Full paths of the entries the calling loops have still to reach.
Pending(st) ==
    UNION {{Join(st[i].dir, e.name) : e \in st[i].todo} : i \in 1..Len(st)}

\* !IGNORED_DIRS.has(entry.name) && !entry.name.startsWith('.')
ShouldRecurse_setOnly(name) == name \notin IGNORED_DIRS

ShouldRecurse(name) == name \notin IGNORED_DIRS /\ ~StartsWithDot(name)

\* readdir resolves: the loop starts on the directory's Dirents.
PD_Readdir ==
    /\ pc = "walk" /\ stack # <<>> /\ Top.phase = "readdir"
    /\ IsDir(fs, Top.dir)
    /\ stack' = SetTop([Top EXCEPT !.phase = "loop", !.todo = Dirents(fs, Top.dir)])
    /\ Issue("readdir", Top.dir)
    /\ UNCHANGED <<fs, opts, pc, exitCode, pf, successCount, failureCount, stats,
                   faults, fs0, pfSnap, calls, visited, recursed, failedDirs, owed,
                   pfCalls>>

PD_ReaddirFail_rethrown ==
    /\ pc = "walk" /\ stack # <<>> /\ Top.phase = "readdir"
    /\ \/ ~IsDir(fs, Top.dir) /\ NoFault
       \/ Fault
    /\ failureCount' = failureCount + 1
    /\ failedDirs' = failedDirs \cup {Top.dir}
    /\ owed' = owed \cup Pending(Pop)
    /\ stack' = <<>>
    /\ Issue("readdir", Top.dir)
    /\ UNCHANGED <<fs, opts, pc, exitCode, pf, successCount, stats, fs0, pfSnap,
                   calls, visited, recursed, pfCalls>>

\* readdir rejects (missing, not a directory, or an injected failure): the catch
\* logs, counts one failure and this processDirectory call returns normally.
PD_ReaddirFail ==
    /\ pc = "walk" /\ stack # <<>> /\ Top.phase = "readdir"
    /\ \/ ~IsDir(fs, Top.dir) /\ NoFault
       \/ Fault
    /\ failureCount' = failureCount + 1
    /\ failedDirs' = failedDirs \cup {Top.dir}
    /\ owed' = owed \cup Pending(Pop)
    /\ stack' = Pop
    /\ Issue("readdir", Top.dir)
    /\ UNCHANGED <<fs, opts, pc, exitCode, pf, successCount, stats, fs0, pfSnap,
                   calls, visited, recursed, pfCalls>>

\* A directory entry that is not ignored: await processDirectory(fullPath).
PD_EntryRecurse ==
    /\ InLoop
    /\ \E e \in Top.todo :
        LET fullPath == Join(Top.dir, e.name) IN
        /\ e.kind = "dir"
        /\ ShouldRecurse(e.name)
        /\ stack' = Append(SetTop([Top EXCEPT !.todo = @ \ {e}]),
                           [dir |-> fullPath, phase |-> "readdir", todo |-> {}])
        /\ visited' = visited \cup {fullPath}
        /\ recursed' = recursed \cup {fullPath}
    /\ UNCHANGED <<fs, opts, pc, exitCode, pf, successCount, failureCount, stats,
                   faults, fs0, pfSnap, calls, io, failedDirs, owed, pfCalls>>

\* A directory entry that is ignored: nothing is done with it.
PD_EntrySkipDir ==
    /\ InLoop
    /\ \E e \in Top.todo :
        /\ e.kind = "dir"
        /\ ~ShouldRecurse(e.name)
        /\ stack' = SetTop([Top EXCEPT !.todo = @ \ {e}])
        /\ visited' = visited \cup {Join(Top.dir, e.name)}
    /\ UNCHANGED <<fs, opts, pc, exitCode, pf, successCount, failureCount, stats,
                   faults, fs0, pfSnap, calls, io, recursed, failedDirs, owed,
                   pfCalls>>

\* A file entry: await processFile(fullPath).
PD_EntryFile ==
    /\ InLoop
    /\ \E e \in Top.todo :
        LET fullPath == Join(Top.dir, e.name) IN
        /\ e.kind = "file"
        /\ stack' = SetTop([Top EXCEPT !.todo = @ \ {e}])
        /\ visited' = visited \cup {fullPath}
        /\ pfCalls' = pfCalls \cup {fullPath}
        /\ CallProcessFile(fullPath)
    /\ UNCHANGED <<fs, opts, pc, exitCode, successCount, failureCount, stats,
                   faults, fs0, calls, io, recursed, failedDirs, owed>>

\* An entry that is neither a directory nor a file: neither branch is taken.
PD_EntryOther ==
    /\ InLoop
    /\ \E e \in Top.todo :
        /\ e.kind = "other"
        /\ stack' = SetTop([Top EXCEPT !.todo = @ \ {e}])
        /\ visited' = visited \cup {Join(Top.dir, e.name)}
    /\ UNCHANGED <<fs, opts, pc, exitCode, pf, successCount, failureCount, stats,
                   faults, fs0, pfSnap, calls, io, recursed, failedDirs, owed,
                   pfCalls>>

\* processFile resolved: result ? successCount++ : failureCount++
PD_FileResult ==
    /\ pc = "walk"
    /\ pf.pc = "ret"
    /\ successCount' = IF pf.result THEN successCount + 1 ELSE successCount
    /\ failureCount' = IF pf.result THEN failureCount ELSE failureCount + 1
    /\ pf' = PfIdle
    /\ pfSnap' = NoFs
    /\ UNCHANGED <<fs, opts, pc, exitCode, stack, stats, faults, fs0, calls, io,
                   visited, recursed, failedDirs, owed, pfCalls>>

\* The loop is over: this processDirectory call returns to its caller.
PD_Return ==
    /\ InLoop
    /\ Top.todo = {}
    /\ stack' = Pop
    /\ UNCHANGED <<fs, opts, pc, exitCode, pf, successCount, failureCount, stats,
                   faults, fs0, pfSnap, calls, io, visited, recursed, failedDirs,
                   owed, pfCalls>>

\* ------------------------------------------------------- the process is killed
\* No cancellation exists; an operator may end the process from outside at any
\* await point.
Kill ==
    /\ Running
    /\ pc' = "killed"
    /\ UNCHANGED <<fs, opts, exitCode, pf, faults, fs0, pfSnap, calls, io, walkVars>>

\* Killed while writeFile has opened newPath and not yet written all of it.
KillDuringWrite ==
    /\ Running
    /\ pf.pc = "write"
    /\ ~IsDir(fs, pf.newPath)
    /\ fs' = Put(fs, pf.newPath, Truncated)
    /\ pc' = "killed"
    /\ UNCHANGED <<opts, exitCode, pf, faults, fs0, pfSnap, calls, io, walkVars>>

Next ==
    \/ MainDryRun
    \/ MainFile
    \/ MainFileReturn
    \/ MainDir
    \/ ConvertDirectoryReturn
    \/ PF_Unsupported
    \/ PF_ReadFail
    \/ PF_ConvertFail
    \/ PF_Converted
    \/ PF_WriteOK
    \/ PF_WriteFail
    \/ PF_WriteFailPartial
    \/ PF_UnlinkOK
    \/ PF_UnlinkFail
    \/ PD_Readdir
    \/ PD_ReaddirFail
    \/ PD_EntryRecurse
    \/ PD_EntrySkipDir
    \/ PD_EntryFile
    \/ PD_EntryOther
    \/ PD_FileResult
    \/ PD_Return
    \/ Kill
    \/ KillDuringWrite

Spec == Init /\ [][Next]_vars

\* ================================================================ properties
\* Vocabulary of the properties.
IsPrefix(a, b) == Len(a) <= Len(b) /\ SubSeq(b, 1, Len(a)) = a
Below(d, p) == IsPrefix(d \o <<Sep>>, p)

EndsWithCI(p, e) ==
    Len(p) > Len(e) /\ ToLowerCase(SubSeq(p, Len(p) - Len(e) + 1, Len(p))) = e

\* The path with a .ts/.tsx ending (any letter case) replaced by .js/.jsx.
MappedPath(p) ==
    IF EndsWithCI(p, EXT_TSX) THEN SubSeq(p, 1, Len(p) - Len(EXT_TSX)) \o EXT_JSX
    ELSE IF EndsWithCI(p, EXT_TS) THEN SubSeq(p, 1, Len(p) - Len(EXT_TS)) \o EXT_JS
    ELSE p

Recognized(p) == ToLowerCase(ExtName(p)) \in SUPPORTED_EXTENSIONS

IgnoredName(n) ==
    \/ n \in {N_node_modules, N_git, N_vscode, N_idea}
    \/ n[1] = "."

InProcessFile == DOMAIN pfSnap # {}
WalkReturned == pc = "done" /\ stats # NoStats

Same(f, g, q) == (q \in DOMAIN f) = (q \in DOMAIN g) /\ (q \in DOMAIN f => f[q] = g[q])

\* C1: during processFile(p) on an existing file with a recognized extension,
\* in every state, also after an I/O failure or a kill at any step, the
\* original path still holds the source or the mapped path holds its
\* conversion: never zero copies.
C1_CopySurvives ==
    (InProcessFile /\ IsFile(pfSnap, pf.filePath) /\ Recognized(pf.filePath)) =>
        \/ IsFile(fs, pf.filePath) /\ fs[pf.filePath] = pfSnap[pf.filePath]
        \/ /\ IsFile(fs, MappedPath(pf.filePath))
           /\ ~Falsy(convertTypeScript(pfSnap[pf.filePath].data))
           /\ fs[MappedPath(pf.filePath)].data
                = convertTypeScript(pfSnap[pf.filePath].data)

\* C1 witness: the process was killed after the write succeeded and before the
\* delete: both copies are on disk.
C1_Witness ==
    /\ pf.pc = "unlink"
    /\ pc = "killed"
    /\ IsFile(fs, pf.filePath)
    /\ IsFile(fs, pf.newPath)
    /\ fs[pf.newPath].data = convertTypeScript(fs[pf.filePath].data)

\* C2: when processFile returns true, the path's extension was .ts or .tsx in
\* some letter case, the mapped path (.ts -> .js, .tsx -> .jsx) holds the
\* transform engine's output for the source, and the original path is gone.
C2_SuccessLeavesOnlyOutput ==
    (pf.pc = "ret" /\ pf.result) =>
        /\ EndsWithCI(pf.filePath, EXT_TS) \/ EndsWithCI(pf.filePath, EXT_TSX)
        /\ IsFile(pfSnap, pf.filePath)
        /\ ~Exists(fs, pf.filePath)
        /\ IsFile(fs, MappedPath(pf.filePath))
        /\ convertTypeScript(pfSnap[pf.filePath].data) # NoOutput
        /\ fs[MappedPath(pf.filePath)].data
             = convertTypeScript(pfSnap[pf.filePath].data)

\* C2 witness: d.TS (upper-case extension) was converted to d.js.
C2_Witness ==
    /\ pf.pc = "ret" /\ pf.result
    /\ pf.filePath = Join(Root, N_d_TS)
    /\ fs[Join(Root, <<"d">> \o EXT_JS)] = File("J1")

\* C3: whenever processFile fails at the transform, at the read or at the
\* write, the original is unchanged, the mapped path holds nothing it did not
\* hold before the call, and the result is false.
C3_FailureTouchesNothing ==
    (pf.pc = "ret" /\ pf.failedAt \in {"convert", "read", "write"}) =>
        /\ ~pf.result
        /\ Same(fs, pfSnap, pf.filePath)
        /\ Same(fs, pfSnap, MappedPath(pf.filePath))

\* C4: an unrecognized extension counts in neither counter: the walk of a
\* directory holding valid a.ts, valid b.tsx and c.json, with no I/O failure,
\* returns success = 2, failure = 0.
C4_SkippedNotCounted ==
    (/\ WalkReturned
     /\ opts.dir = Root
     /\ faults = 0
     /\ fs0 = MergeAll({"a.ts", "b.tsx", "c.json"}))
        => stats = [success |-> 2, failure |-> 0]

\* C5: when convertDirectory returns, success + failure is the number of
\* nodes that count: the files with a recognized extension handed to
\* processFile plus the directories whose enumeration failed.
C5_CountsAddUp ==
    WalkReturned =>
        stats.success + stats.failure
            = Cardinality({p \in pfCalls : Recognized(p)}) + Cardinality(failedDirs)

\* C6: a directory that cannot be enumerated adds exactly one to failureCount
\* and nothing to successCount, the walk goes on, and when convertDirectory
\* returns every entry that was still to come in the calling loops has been
\* visited.
C6_EnumerationFailureIsolated ==
    [][/\ (failedDirs' # failedDirs =>
            /\ failureCount' = failureCount + 1
            /\ successCount' = successCount
            /\ Cardinality(failedDirs') = Cardinality(failedDirs) + 1
            /\ pc' = "walk")
       /\ (WalkReturned' => owed' \subseteq visited')]_vars

\* C6 witness: a subdirectory failed to enumerate with siblings still to come,
\* and the walk returned after visiting them.
C6_Witness ==
    /\ WalkReturned
    /\ Join(Root, N_sub) \in failedDirs
    /\ owed # {}
    /\ owed \subseteq visited
    /\ stats.success > 0

\* C7: with dryRun set, in both modes, neither processFile nor convertDirectory
\* is ever invoked, no filesystem operation is issued, and the filesystem is
\* what it was at start.
C7_DryRunTouchesNothing ==
    opts.dryRun =>
        /\ calls = {}
        /\ io = {}
        /\ pf.pc = "idle"
        /\ stack = <<>>
        /\ fs = fs0

\* C7 witness: a dry run on an existing .ts file has ended.
C7_Witness ==
    /\ opts.dryRun
    /\ pc = "done"
    /\ opts.file = Join(Root, N_a_ts)
    /\ IsFile(fs, opts.file)

\* C8 as claimed: in single-file mode without dryRun a file that cannot be read
\* ends the process with a nonzero status; every other completed run ends
\* with status 0.
C8_UnreadableFileExitsNonzero ==
    pc = "done" =>
        IF opts.file # None /\ ~opts.dryRun /\ pf.failedAt = "read"
        THEN exitCode # 0
        ELSE exitCode = 0

\* C8 as amended: every run that completes ends with status 0, also a
\* single-file run whose file could not be read (processFile catches the
\* error and returns false, main drops the result); no status is set before.
C8_CompletedRunExitsZero ==
    /\ pc = "done" => exitCode = 0
    /\ pc # "done" => exitCode = -1

\* C8 witness: a single-file run on an unreadable file has completed.
C8_Witness ==
    /\ pc = "done"
    /\ opts.file # None /\ ~opts.dryRun
    /\ pf.failedAt = "read"
    /\ exitCode = 0

\* C9: a directory entry below the walked root whose name is in the ignore set
\* or begins with '.' is never recursed into and nothing at or below it is
\* read, written, deleted or handed to processFile; every other directory
\* entry the loop reaches is recursed into.
C9_IgnoredNeverEntered ==
    /\ \A d \in DOMAIN fs0 :
          (IsDir(fs0, d) /\ Below(opts.dir, d) /\ IgnoredName(Basename(d))) =>
              /\ \A x \in {r.path : r \in io} \cup pfCalls \cup recursed :
                    x # d /\ ~Below(d, x)
              /\ \A q \in DOMAIN fs \cup DOMAIN fs0 : Below(d, q) => Same(fs, fs0, q)
    /\ \A d \in visited :
          (IsDir(fs0, d) /\ ~IgnoredName(Basename(d))) => d \in recursed

\* C9 witness: a walk that met node_modules, an ordinary directory and a hidden
\* directory inside it has returned, having converted a file.
C9_Witness ==
    /\ WalkReturned
    /\ opts.dir = Root
    /\ Join(Root, N_node_modules) \in visited
    /\ Join(Root, N_sub) \in recursed
    /\ Join(Join(Root, N_sub), N_hidden) \in visited
    /\ stats.success > 0

====
